---- MODULE Spec2Model ----
(***************************************************************************)
(* Attention mechanisms of Attention_mechanisms.ipynb: MultiHeadAttention,  *)
(* GroupQueryAttention (MultiQueryAttention is kv_heads = 1) and            *)
(* MultiHeadLatentAttention.                                                *)
(*                                                                          *)
(* A tensor is a record [ok, shape, stride, den, data]: a strided view of   *)
(* a flat storage `data` (as in torch), whose element at index idx is       *)
(* data[1 + SUM idx[i] * stride[i]] / den.  Inputs, weights and biases are  *)
(* integers (den = 1); `den` carries the fixed-point scale of the two       *)
(* places where the code leaves the integers: the division by               *)
(* head_dim ** 0.5 (logits in units of 1/LogitDen) and softmax (weights in  *)
(* units of 1/One).  A tensor with ok = FALSE is the exception a torch call *)
(* raised; every later step of the forward pass propagates it.              *)
(***************************************************************************)
EXTENDS Integers, Sequences, FiniteSets, TLC

VARIABLES pc, layer, x, mask, fw, err

vars == <<pc, layer, x, mask, fw, err>>

\* ------------------------------------------------------------------ bounds
MaxBatch == 2
MaxSeq == 2
MaxDim == 4
MaxHeads == 4
MaxLatent == 1
MaxSeed == 1
MaxPattern == 2

\* ------------------------------------------------- fixed-point arithmetic
\* logits are kept in units of 1/LogitDen
LogitDen == 2
\* softmax weights are kept in units of 1/One
One == 10000
\* exp(-1/LogitDen) in units of 1/One
ExpStep == 6065
\* head_dim ** 0.5 is kept in units of 1/SqrtDen
SqrtDen == 100
\* the fill value of masked_fill
MaskFill == -1000000000

\* ------------------------------------------------------- index arithmetic
RECURSIVE Prod(_)
Prod(s) == IF s = <<>> THEN 1 ELSE Head(s) * Prod(Tail(s))

RECURSIVE Dot(_, _)
Dot(a, b) == IF a = <<>> THEN 0 ELSE Head(a) * Head(b) + Dot(Tail(a), Tail(b))

Front(s) == SubSeq(s, 1, Len(s) - 1)

Last(s) == s[Len(s)]

\* strides of a freshly allocated (row-major) tensor of this shape
RECURSIVE ContigStride(_)
ContigStride(shape) ==
  IF shape = <<>> THEN <<>>
  ELSE <<Prod(Tail(shape))>> \o ContigStride(Tail(shape))

\* the index of the p-th element (p from 0) in row-major order
RECURSIVE Unflatten(_, _)
Unflatten(p, shape) ==
  IF shape = <<>> THEN <<>>
  ELSE LET inner == Prod(Tail(shape))
       IN  <<p \div inner>> \o Unflatten(p % inner, Tail(shape))

\* a torch dimension number (from 0, negative from the end) as a position
DimOf(shape, d) == IF d < 0 THEN Len(shape) + d + 1 ELSE d + 1

\* -------------------------------------------------------------- tensors
Raise(msg) ==
  [ok |-> FALSE, shape |-> <<>>, stride |-> <<>>, den |-> 1, data |-> <<>>,
   msg |-> msg]

\* a newly allocated tensor; its storage is laid out in row-major order
Fresh(shape, den, data) ==
  [ok |-> TRUE, shape |-> shape, stride |-> ContigStride(shape), den |-> den,
   data |-> data \o <<>>, msg |-> ""]

Numel(t) == Prod(t.shape)

At(t, idx) == t.data[1 + Dot(idx, t.stride)]

IsContiguous(t) == Numel(t) = 0 \/ t.stride = ContigStride(t.shape)

Contiguous(t) ==
  IF ~t.ok \/ IsContiguous(t) THEN t
  ELSE Fresh(t.shape, t.den, [p \in 1..Numel(t) |-> At(t, Unflatten(p - 1, t.shape))])

Swap(s, i, j) ==
  [k \in 1..Len(s) |-> IF k = i THEN s[j] ELSE IF k = j THEN s[i] ELSE s[k]] \o <<>>

Transpose(t, d0, d1) ==
  IF ~t.ok THEN t
  ELSE LET i == DimOf(t.shape, d0)
           j == DimOf(t.shape, d1)
       IN  [t EXCEPT !.shape = Swap(t.shape, i, j),
                     !.stride = Swap(t.stride, i, j)]

\* Unsqueeze gone wrong: the new axis is inserted in front (unsqueeze(0))
Unsqueeze_Front(t, d) ==
  IF ~t.ok THEN t
  ELSE [t EXCEPT !.shape  = <<1>> \o t.shape,
                 !.stride = <<t.shape[1] * t.stride[1]>> \o t.stride]

Unsqueeze(t, d) ==
  IF ~t.ok THEN t
  ELSE LET i  == DimOf(t.shape, d)
           n  == Len(t.shape)
           st == IF i > n THEN 1 ELSE t.shape[i] * t.stride[i]
       IN  [t EXCEPT !.shape  = SubSeq(t.shape, 1, i - 1) \o <<1>> \o SubSeq(t.shape, i, n),
                     !.stride = SubSeq(t.stride, 1, i - 1) \o <<st>> \o SubSeq(t.stride, i, n)]

\* ---- Tensor.view: the strides of the new shape over the same storage, or
\* NoStride when the new shape cuts across a non-contiguous boundary
NoStride == <<-1>>

RECURSIVE ViewFill(_, _, _, _, _, _)
ViewFill(newshape, vd, vnumel, tnumel, base, nstr) ==
  IF vd >= 1 /\ (vnumel < tnumel \/ newshape[vd] = 1)
  THEN ViewFill(newshape, vd - 1, vnumel * newshape[vd], tnumel, base,
                [nstr EXCEPT ![vd] = vnumel * base])
  ELSE [vd |-> vd, vnumel |-> vnumel, nstr |-> nstr]

RECURSIVE ViewChunks(_, _, _, _, _, _, _, _)
ViewChunks(oshape, ostride, newshape, td, vd, tnumel0, base, nstr) ==
  LET tnumel   == tnumel0 * oshape[td]
      endChunk == td = 1 \/ (oshape[td - 1] # 1 /\ ostride[td - 1] # tnumel * base)
  IN  IF ~endChunk
      THEN ViewChunks(oshape, ostride, newshape, td - 1, vd, tnumel, base, nstr)
      ELSE LET f == ViewFill(newshape, vd, 1, tnumel, base, nstr)
           IN  IF f.vnumel # tnumel THEN NoStride
               ELSE IF td > 1
               THEN ViewChunks(oshape, ostride, newshape, td - 1, f.vd, 1,
                               ostride[td - 1], f.nstr)
               ELSE IF f.vd = 0 THEN f.nstr ELSE NoStride

ComputeStride(oshape, ostride, newshape) ==
  IF Prod(oshape) = 0 \/ oshape = <<>> THEN ContigStride(newshape)
  ELSE IF newshape = <<>> THEN NoStride
  ELSE ViewChunks(oshape, ostride, newshape, Len(oshape), Len(newshape), 1,
                  Last(ostride), [k \in 1..Len(newshape) |-> 0])

View(t, newshape) ==
  IF ~t.ok THEN t
  ELSE IF Prod(newshape) # Numel(t)
  THEN Raise("RuntimeError: shape is invalid for input size")
  ELSE LET st == ComputeStride(t.shape, t.stride, newshape)
       IN  IF st = NoStride
           THEN Raise("RuntimeError: view size is not compatible with input tensor's size and stride")
           ELSE [t EXCEPT !.shape = newshape, !.stride = st]

\* ---- broadcasting
RECURSIVE Ones(_)
Ones(n) == IF n <= 0 THEN <<>> ELSE <<1>> \o Ones(n - 1)

PadLeft(s, n) == Ones(n - Len(s)) \o s

MaxOf(a, b) == IF a >= b THEN a ELSE b

\* the broadcast of two shapes, or NoStride when they do not broadcast
BroadcastShape(sa, sb) ==
  LET n  == MaxOf(Len(sa), Len(sb))
      pa == PadLeft(sa, n)
      pb == PadLeft(sb, n)
  IN  IF \E k \in 1..n : pa[k] # pb[k] /\ pa[k] # 1 /\ pb[k] # 1
      THEN NoStride
      ELSE [k \in 1..n |-> IF pa[k] = 1 THEN pb[k] ELSE pa[k]] \o <<>>

\* the index into a tensor of shape `shape` that index idx of the broadcast reads
BIdx(idx, shape) ==
  LET off == Len(idx) - Len(shape)
  IN  [k \in 1..Len(shape) |-> IF shape[k] = 1 THEN 0 ELSE idx[k + off]] \o <<>>

\* ---- nn.Linear: a layer [inF, outF, w, b] with w[j][i] the weight from input
\* feature i to output feature j; y[..., j] = SUM_i x[..., i] * w[j][i] + b[j]
RECURSIVE SumTo(_, _)
SumTo(f, n) == IF n = 0 THEN 0 ELSE f[n] + SumTo(f, n - 1)

Linear(t, lin) ==
  IF ~t.ok THEN t
  ELSE IF Last(t.shape) # lin.inF
  THEN Raise("RuntimeError: mat1 and mat2 shapes cannot be multiplied")
  ELSE LET oshape == Front(t.shape) \o <<lin.outF>>
       IN  Fresh(oshape, t.den,
             [p \in 1..Prod(oshape) |->
                LET idx == Unflatten(p - 1, oshape)
                    pre == Front(idx)
                    j   == Last(idx) + 1
                IN  SumTo([i \in 1..lin.inF |-> At(t, pre \o <<i - 1>>) * lin.w[j][i]],
                          lin.inF)
                    + lin.b[j] * t.den])

\* ---- torch.matmul / @ of two tensors of rank >= 2: the leading (batch)
\* dimensions broadcast, the last two are multiplied as matrices
Matmul(a, b) ==
  IF ~a.ok THEN a
  ELSE IF ~b.ok THEN b
  ELSE LET ra == Len(a.shape)
           rb == Len(b.shape)
           ba == SubSeq(a.shape, 1, ra - 2)
           bb == SubSeq(b.shape, 1, rb - 2)
           bs == BroadcastShape(ba, bb)
           n  == a.shape[ra - 1]
           m  == a.shape[ra]
           q  == b.shape[rb]
       IN  IF bs = NoStride \/ b.shape[rb - 1] # m
           THEN Raise("RuntimeError: matmul shapes do not match")
           ELSE LET oshape == bs \o <<n, q>>
                IN  Fresh(oshape, a.den * b.den,
                      [p \in 1..Prod(oshape) |->
                         LET idx == Unflatten(p - 1, oshape)
                             bi  == SubSeq(idx, 1, Len(bs))
                             r   == idx[Len(bs) + 1]
                             c   == idx[Len(bs) + 2]
                             ia  == BIdx(bi, ba)
                             ib  == BIdx(bi, bb)
                         IN  SumTo([k \in 1..m |-> At(a, ia \o <<r, k - 1>>)
                                                  * At(b, ib \o <<k - 1, c>>)], m)])

\* SumDim gone wrong: the mean over dimension d (torch.mean)
SumDim_Mean(t, d) ==
  IF ~t.ok THEN t
  ELSE LET i      == DimOf(t.shape, d)
           n      == Len(t.shape)
           oshape == SubSeq(t.shape, 1, i - 1) \o SubSeq(t.shape, i + 1, n)
       IN  Fresh(oshape, t.den,
             [p \in 1..Prod(oshape) |->
                LET idx == Unflatten(p - 1, oshape)
                IN  SumTo([k \in 1..t.shape[i] |->
                             At(t, SubSeq(idx, 1, i - 1) \o <<k - 1>>
                                   \o SubSeq(idx, i, n - 1))], t.shape[i])
                    \div t.shape[i]])

\* ---- torch.sum(t, dim=d)
SumDim(t, d) ==
  IF ~t.ok THEN t
  ELSE LET i      == DimOf(t.shape, d)
           n      == Len(t.shape)
           oshape == SubSeq(t.shape, 1, i - 1) \o SubSeq(t.shape, i + 1, n)
       IN  Fresh(oshape, t.den,
             [p \in 1..Prod(oshape) |->
                LET idx == Unflatten(p - 1, oshape)
                IN  SumTo([k \in 1..t.shape[i] |->
                             At(t, SubSeq(idx, 1, i - 1) \o <<k - 1>>
                                   \o SubSeq(idx, i, n - 1))], t.shape[i])])

\* ---- t / (head_dim ** 0.5): the square root to 1/SqrtDen, the quotient
\* rounded down to the logit unit 1/LogitDen
RECURSIVE ISqrtIn(_, _, _)
ISqrtIn(n, lo, hi) ==
  IF hi - lo <= 1 THEN lo
  ELSE LET mid == (lo + hi) \div 2
       IN  IF mid * mid <= n THEN ISqrtIn(n, mid, hi) ELSE ISqrtIn(n, lo, mid)

\* the integer part of n ** 0.5 * SqrtDen
SqrtFx(n) == ISqrtIn(n * SqrtDen * SqrtDen, 0, n * SqrtDen + 1)

DivSqrt(t, head_dim) ==
  IF ~t.ok THEN t
  ELSE LET sq == SqrtFx(head_dim)
       IN  Fresh(t.shape, LogitDen,
             [p \in 1..Numel(t) |->
                (At(t, Unflatten(p - 1, t.shape)) * LogitDen * SqrtDen) \div (sq * t.den)])

\* ---- mask == 0 and Tensor.masked_fill(mask, value)
None ==
  [ok |-> FALSE, shape |-> <<>>, stride |-> <<>>, den |-> 1, data |-> <<>>,
   msg |-> "None"]

\* EqZero gone wrong: the mask itself is passed to masked_fill
EqZero_Dropped(m) == m

EqZero(m) ==
  Fresh(m.shape, 1,
        [p \in 1..Numel(m) |-> IF At(m, Unflatten(p - 1, m.shape)) = 0 THEN 1 ELSE 0])

\* MaskedFill gone wrong: the mask is read as (key, query)
MaskedFill_TransposedMask(t, m, value) ==
  IF ~t.ok THEN t
  ELSE IF BroadcastShape(t.shape, m.shape) # t.shape
  THEN Raise("RuntimeError: mask is not broadcastable to the tensor")
  ELSE Fresh(t.shape, t.den,
         [p \in 1..Numel(t) |->
            LET idx == Unflatten(p - 1, t.shape)
                n   == Len(idx)
            IN  IF At(m, BIdx(Swap(idx, n - 1, n), m.shape)) = 1
                THEN value * t.den ELSE At(t, idx)])

MaskedFill(t, m, value) ==
  IF ~t.ok THEN t
  ELSE IF BroadcastShape(t.shape, m.shape) # t.shape
  THEN Raise("RuntimeError: mask is not broadcastable to the tensor")
  ELSE Fresh(t.shape, t.den,
         [p \in 1..Numel(t) |->
            LET idx == Unflatten(p - 1, t.shape)
            IN  IF At(m, BIdx(idx, m.shape)) = 1 THEN value * t.den ELSE At(t, idx)])

\* ---- softmax over dimension d: exp(l - max) / SUM exp(l - max), with
\* exp in units of 1/One; exp underflows to 0
RECURSIVE ExpIter(_, _)
ExpIter(acc, k) ==
  IF k = 0 \/ acc = 0 THEN acc ELSE ExpIter((acc * ExpStep) \div One, k - 1)

\* exp(-k / LogitDen) for k >= 0
ExpNeg(k) == ExpIter(One, k)

RECURSIVE MaxTo(_, _)
MaxTo(f, n) == IF n = 1 THEN f[1] ELSE MaxOf(f[n], MaxTo(f, n - 1))

SoftmaxRow(row) ==
  LET n  == Len(row)
      m  == MaxTo(row, n)
      es == [k \in 1..n |-> ExpNeg(m - row[k])] \o <<>>
      z  == SumTo(es, n)
  IN  [k \in 1..n |-> (es[k] * One) \div z] \o <<>>

\* a tensor's values in logit units
ToLogit(v, den) == IF den = LogitDen THEN v ELSE (v * LogitDen) \div den

\* Softmax gone wrong: normalised over the dimension before d (the queries)
Softmax_OverQueries(t, d) ==
  IF ~t.ok THEN t
  ELSE LET tt   == Transpose(t, d - 1, -1)
           n    == Last(tt.shape)
           pre  == Front(tt.shape)
           rows == [r \in 1..Prod(pre) |->
                      SoftmaxRow([k \in 1..n |->
                         ToLogit(At(tt, Unflatten(r - 1, pre) \o <<k - 1>>), t.den)] \o <<>>)]
                   \o <<>>
           res  == Fresh(tt.shape, One,
                     [p \in 1..Numel(tt) |-> rows[((p - 1) \div n) + 1][((p - 1) % n) + 1]])
       IN  Transpose(res, d - 1, -1)

Softmax(t, d) ==
  IF ~t.ok THEN t
  ELSE LET tt   == Transpose(t, d, -1)
           n    == Last(tt.shape)
           pre  == Front(tt.shape)
           rows == [r \in 1..Prod(pre) |->
                      SoftmaxRow([k \in 1..n |->
                         ToLogit(At(tt, Unflatten(r - 1, pre) \o <<k - 1>>), t.den)] \o <<>>)]
                   \o <<>>
           res  == Fresh(tt.shape, One,
                     [p \in 1..Numel(tt) |-> rows[((p - 1) \div n) + 1][((p - 1) % n) + 1]])
       IN  Transpose(res, d, -1)

\* ------------------------------------------------------------ parameters
\* nn.Linear(inF, outF) with one of the weight settings the model draws from:
\* output feature j reads input feature (j + shift) mod inF with weight 1 and
\* every other input feature with weight off; every bias is `bias`
NewLinear(inF, outF, shift, off, bias) ==
  [inF |-> inF, outF |-> outF,
   w |-> [j \in 1..outF |->
            [i \in 1..inF |-> IF i - 1 = (j - 1 + shift) % inF THEN 1 ELSE off] \o <<>>]
         \o <<>>,
   b |-> [j \in 1..outF |-> bias] \o <<>>]

\* weight setting `seed` of the projection in role r (seed 0: selection
\* matrices without shift, zero biases)
InitLinear(inF, outF, seed, r) ==
  NewLinear(inF, outF, seed * r,
            IF r = 3 THEN -seed ELSE 0,
            IF r = 0 \/ r = 3 THEN seed ELSE 0)

\* ---------------------------------------------------- MultiHeadAttention
MHA_init(hidden_dim, num_heads, seed) ==
  [kind |-> "MultiHeadAttention",
   num_heads |-> num_heads,
   hidden_dim |-> hidden_dim,
   head_dim |-> hidden_dim \div num_heads,
   query |-> InitLinear(hidden_dim, hidden_dim, seed, 1),
   keys |-> InitLinear(hidden_dim, hidden_dim, seed, 0),
   values |-> InitLinear(hidden_dim, hidden_dim, seed, 2),
   output |-> InitLinear(hidden_dim, hidden_dim, seed, 3)]

\* MHA_forward gone wrong: the heads are merged by view(b, s, d) without
\* transposing back to (b, s, num_heads, head_dim)
MHA_forward_MergeWithoutTranspose(self, xx) ==
  LET b == xx.shape[1]
      s == xx.shape[2]
      d == xx.shape[3]
      query0 == Linear(xx, self.query)
      keys0 == Linear(xx, self.keys)
      values0 == Linear(xx, self.values)
      query1 == View(query0, <<b, s, self.num_heads, self.head_dim>>)
      keys1 == View(keys0, <<b, s, self.num_heads, self.head_dim>>)
      values1 == View(values0, <<b, s, self.num_heads, self.head_dim>>)
      query == Transpose(query1, 1, 2)
      keys == Transpose(keys1, 1, 2)
      values == Transpose(values1, 1, 2)
      scaled == DivSqrt(Matmul(query, Transpose(keys, 2, 3)), self.head_dim)
      atten_score == Softmax(scaled, -1)
      out1 == Matmul(atten_score, values)
      out3 == View(Contiguous(out1), <<b, s, d>>)
  IN  [query |-> query, keys |-> keys, values |-> values, logits |-> scaled,
       atten |-> atten_score, ctx |-> out3, out |-> Linear(out3, self.output)]

MHA_forward(self, xx) ==
  LET b == xx.shape[1]
      s == xx.shape[2]
      d == xx.shape[3]
      query0 == Linear(xx, self.query)
      keys0 == Linear(xx, self.keys)
      values0 == Linear(xx, self.values)
      query1 == View(query0, <<b, s, self.num_heads, self.head_dim>>)
      keys1 == View(keys0, <<b, s, self.num_heads, self.head_dim>>)
      values1 == View(values0, <<b, s, self.num_heads, self.head_dim>>)
      query == Transpose(query1, 1, 2)
      keys == Transpose(keys1, 1, 2)
      values == Transpose(values1, 1, 2)
      scaled == DivSqrt(Matmul(query, Transpose(keys, 2, 3)), self.head_dim)
      atten_score == Softmax(scaled, -1)
      out1 == Matmul(atten_score, values)
      out2 == Transpose(out1, 1, 2)
      out3 == View(Contiguous(out2), <<b, s, d>>)
  IN  [query |-> query, keys |-> keys, values |-> values, logits |-> scaled,
       atten |-> atten_score, ctx |-> out3, out |-> Linear(out3, self.output)]

\* --------------------------------------------------- GroupQueryAttention
\* GQA_init gone wrong: the output projection keeps the width kv_heads * head_dim
GQA_init_NarrowOutput(hidden_dim, query_heads, kv_heads, seed) ==
  LET head_dim == hidden_dim \div query_heads
  IN  [kind |-> "GroupQueryAttention",
       hidden_dim |-> hidden_dim,
       head_dim |-> head_dim,
       q_heads |-> query_heads,
       kv_heads |-> kv_heads,
       query |-> InitLinear(hidden_dim, query_heads * head_dim, seed, 1),
       keys |-> InitLinear(hidden_dim, kv_heads * head_dim, seed, 0),
       values |-> InitLinear(hidden_dim, kv_heads * head_dim, seed, 2),
       output |-> InitLinear(kv_heads * head_dim, kv_heads * head_dim, seed, 3)]

GQA_init(hidden_dim, query_heads, kv_heads, seed) ==
  LET head_dim == hidden_dim \div query_heads
  IN  [kind |-> "GroupQueryAttention",
       hidden_dim |-> hidden_dim,
       head_dim |-> head_dim,
       q_heads |-> query_heads,
       kv_heads |-> kv_heads,
       query |-> InitLinear(hidden_dim, query_heads * head_dim, seed, 1),
       keys |-> InitLinear(hidden_dim, kv_heads * head_dim, seed, 0),
       values |-> InitLinear(hidden_dim, kv_heads * head_dim, seed, 2),
       output |-> InitLinear(kv_heads * head_dim, hidden_dim, seed, 3)]

\* GQA_forward gone wrong: the query heads are regrouped kv-major, as
\* view(b, kv_heads, groups, s, head_dim).transpose(1, 2)
GQA_forward_KVMajor(self, xx) ==
  LET b == xx.shape[1]
      s == xx.shape[2]
      query0 == Linear(xx, self.query)
      keys0 == Linear(xx, self.keys)
      values0 == Linear(xx, self.values)
      query1 == View(query0, <<b, s, self.q_heads, self.head_dim>>)
      keys1 == View(keys0, <<b, s, self.kv_heads, self.head_dim>>)
      values1 == View(values0, <<b, s, self.kv_heads, self.head_dim>>)
      query2 == Transpose(query1, 1, 2)
      query == Transpose(View(query2, <<b, self.kv_heads, self.q_heads \div self.kv_heads,
                                        s, self.head_dim>>), 1, 2)
      keys == Unsqueeze(Transpose(keys1, 1, 2), 1)
      values == Transpose(values1, 1, 2)
      raw == Matmul(query, Transpose(keys, 3, 4))
      atten_score == SumDim(raw, 1)
      out1 == Matmul(atten_score, values)
      out2 == View(Contiguous(Transpose(out1, 1, 2)),
                   <<b, s, self.kv_heads * self.head_dim>>)
  IN  [query |-> query, keys |-> keys, values |-> values, logits |-> raw,
       atten |-> atten_score, ctx |-> out2, out |-> Linear(out2, self.output)]

GQA_forward(self, xx) ==
  LET b == xx.shape[1]
      s == xx.shape[2]
      query0 == Linear(xx, self.query)
      keys0 == Linear(xx, self.keys)
      values0 == Linear(xx, self.values)
      query1 == View(query0, <<b, s, self.q_heads, self.head_dim>>)
      keys1 == View(keys0, <<b, s, self.kv_heads, self.head_dim>>)
      values1 == View(values0, <<b, s, self.kv_heads, self.head_dim>>)
      query2 == Transpose(query1, 1, 2)
      query == View(query2, <<b, self.q_heads \div self.kv_heads, self.kv_heads, s,
                              self.head_dim>>)
      keys == Unsqueeze(Transpose(keys1, 1, 2), 1)
      values == Transpose(values1, 1, 2)
      raw == Matmul(query, Transpose(keys, 3, 4))
      atten_score == SumDim(raw, 1)
      out1 == Matmul(atten_score, values)
      out2 == View(Contiguous(Transpose(out1, 1, 2)),
                   <<b, s, self.kv_heads * self.head_dim>>)
  IN  [query |-> query, keys |-> keys, values |-> values, logits |-> raw,
       atten |-> atten_score, ctx |-> out2, out |-> Linear(out2, self.output)]

\* ---------------------------------------------- MultiHeadLatentAttention
\* the assert of __init__
MLA_assert(d_model, num_heads) == d_model % num_heads = 0

MLA_init(d_model, num_heads, d_latent, seed) ==
  [kind |-> "MultiHeadLatentAttention",
   num_heads |-> num_heads,
   d_model |-> d_model,
   d_head |-> d_model \div num_heads,
   query_proj |-> InitLinear(d_model, d_model, seed, 1),
   kv_down_proj |-> InitLinear(d_model, d_latent, seed, 0),
   k_up_proj |-> InitLinear(d_latent, d_model, seed, 0),
   v_up_proj |-> InitLinear(d_latent, d_model, seed, 2),
   out_proj |-> InitLinear(d_model, d_model, seed, 3)]

MLA_forward(self, xx, m) ==
  LET B == xx.shape[1]
      T == xx.shape[2]
      Q0 == Linear(xx, self.query_proj)
      latent == Linear(xx, self.kv_down_proj)
      K0 == Linear(latent, self.k_up_proj)
      V0 == Linear(latent, self.v_up_proj)
      Q == Transpose(View(Q0, <<B, T, self.num_heads, self.d_head>>), 1, 2)
      K == Transpose(View(K0, <<B, T, self.num_heads, self.d_head>>), 1, 2)
      V == Transpose(View(V0, <<B, T, self.num_heads, self.d_head>>), 1, 2)
      attn_logits0 == DivSqrt(Matmul(Q, Transpose(K, -2, -1)), self.d_head)
      attn_logits == IF m # None THEN MaskedFill(attn_logits0, EqZero(m), MaskFill)
                     ELSE attn_logits0
      attn_weights == Softmax(attn_logits, -1)
      context0 == Matmul(attn_weights, V)
      context == View(Contiguous(Transpose(context0, 1, 2)), <<B, T, self.d_model>>)
  IN  [query |-> Q, keys |-> K, values |-> V, logits |-> attn_logits0,
       atten |-> attn_weights, ctx |-> context, out |-> Linear(context, self.out_proj)]

\* ------------------------------------------------------------- inputs
\* the activation tensors the model draws from: shape (B, S, D), element p
\* (row-major, from 0) of pattern k is ((k + 1) * (p + 1)) mod 7 - 3
Input(B, S, D, k) ==
  Fresh(<<B, S, D>>, 1, [p \in 1..(B * S * D) |-> (((k + 1) * p) % 7) - 3])

Inputs(D) ==
  {Input(B, S, D, k) : B \in 1..MaxBatch, S \in 1..MaxSeq, k \in 0..MaxPattern}

\* the masks the model draws from, of shape (T, T), 1 = attend and 0 = exclude:
\* all ones, causal, one key position excluded for every query, one query
\* position with every key excluded
\* the (T, T) mask with entry keep[q][k] at query q, key k
OnesMask(T) == Fresh(<<T, T>>, 1, [p \in 1..(T * T) |-> 1])

CausalMask(T) ==
  Fresh(<<T, T>>, 1, [p \in 1..(T * T) |-> IF (p - 1) % T <= (p - 1) \div T THEN 1 ELSE 0])

KeyExcludedMask(T, c) ==
  Fresh(<<T, T>>, 1, [p \in 1..(T * T) |-> IF (p - 1) % T # c THEN 1 ELSE 0])

QueryExcludedMask(T, r) ==
  Fresh(<<T, T>>, 1, [p \in 1..(T * T) |-> IF (p - 1) \div T # r THEN 1 ELSE 0])

Masks(T) ==
  {OnesMask(T), CausalMask(T)}
  \cup {KeyExcludedMask(T, c) : c \in 0..(T - 1)}
  \cup {QueryExcludedMask(T, r) : r \in 0..(T - 1)}

\* ------------------------------------------------------------- actions
NoLayer == [kind |-> "none"]

NoForward == [out |-> None]

Init ==
  /\ pc = "new"
  /\ layer = NoLayer
  /\ x = None
  /\ mask = None
  /\ fw = NoForward
  /\ err = ""

\* layer = MultiHeadAttention(hidden_dim, num_heads)
ConstructMHA ==
  /\ pc = "new"
  /\ \E hidden_dim \in 1..MaxDim, num_heads \in 1..MaxHeads, seed \in 0..MaxSeed :
        layer' = MHA_init(hidden_dim, num_heads, seed)
  /\ pc' = "ready"
  /\ UNCHANGED <<x, mask, fw, err>>

\* model = GroupQueryAttention(hidden_dim, query_heads, kv_heads)
ConstructGQA ==
  /\ pc = "new"
  /\ \E hidden_dim \in 1..MaxDim, query_heads \in 1..MaxHeads,
        kv_heads \in 1..MaxHeads, seed \in 0..MaxSeed :
        layer' = GQA_init(hidden_dim, query_heads, kv_heads, seed)
  /\ pc' = "ready"
  /\ UNCHANGED <<x, mask, fw, err>>

\* model = MultiHeadLatentAttention(d_model, num_heads, d_latent)
ConstructMLA ==
  /\ pc = "new"
  /\ \E d_model \in 1..MaxDim, num_heads \in 1..MaxHeads,
        d_latent \in 1..MaxLatent, seed \in 0..MaxSeed :
        IF MLA_assert(d_model, num_heads)
        THEN /\ layer' = MLA_init(d_model, num_heads, d_latent, seed)
             /\ pc' = "ready"
             /\ err' = ""
        ELSE /\ layer' = [kind |-> "none", d_model |-> d_model, num_heads |-> num_heads]
             /\ pc' = "init_error"
             /\ err' = "AssertionError: d_model must be divisible by num_heads"
  /\ UNCHANGED <<x, mask, fw>>

Finish(f) ==
  /\ fw' = f
  /\ pc' = IF f.out.ok THEN "done" ELSE "forward_error"
  /\ err' = f.out.msg

\* layer(x)
CallMHA ==
  /\ pc = "ready"
  /\ layer.kind = "MultiHeadAttention"
  /\ \E xx \in Inputs(layer.hidden_dim) :
        /\ x' = xx
        /\ Finish(MHA_forward(layer, xx))
  /\ UNCHANGED <<layer, mask>>

\* model(x)
CallGQA ==
  /\ pc = "ready"
  /\ layer.kind = "GroupQueryAttention"
  /\ \E xx \in Inputs(layer.hidden_dim) :
        /\ x' = xx
        /\ Finish(GQA_forward(layer, xx))
  /\ UNCHANGED <<layer, mask>>

\* model(x) and model(x, mask)
CallMLA ==
  /\ pc = "ready"
  /\ layer.kind = "MultiHeadLatentAttention"
  /\ \E xx \in Inputs(layer.d_model) :
        \E m \in {None} \cup Masks(xx.shape[2]) :
          /\ x' = xx
          /\ mask' = m
          /\ Finish(MLA_forward(layer, xx, m))
  /\ UNCHANGED layer

Next ==
  \/ ConstructMHA
  \/ ConstructGQA
  \/ ConstructMLA
  \/ CallMHA
  \/ CallGQA
  \/ CallMLA

Spec == Init /\ [][Next]_vars

\* ------------------------------------------------------------- claims
IsMHA == layer.kind = "MultiHeadAttention"

IsGQA == layer.kind = "GroupQueryAttention"

IsMLA == layer.kind = "MultiHeadLatentAttention"

Called == pc \in {"done", "forward_error"}

\* a valid configuration: hidden_dim divisible by the head count, and for
\* GroupQueryAttention query_heads divisible by kv_heads
ValidConfig ==
  \/ IsMHA /\ layer.hidden_dim % layer.num_heads = 0
  \/ IsGQA /\ layer.hidden_dim % layer.q_heads = 0 /\ layer.q_heads % layer.kv_heads = 0
  \/ IsMLA /\ layer.d_model % layer.num_heads = 0

Abs(n) == IF n < 0 THEN -n ELSE n

\* two tensors of the same shape whose values differ by at most tol / (a.den * b.den)
Close(a, b, tol) ==
  /\ a.ok /\ b.ok
  /\ a.shape = b.shape
  /\ \A p \in 1..Numel(a) :
        LET idx == Unflatten(p - 1, a.shape)
        IN  Abs(At(a, idx) * b.den - At(b, idx) * a.den) <= tol

\* C1: for MultiHeadAttention, GroupQueryAttention (kv_heads = 1 included) and
\* MultiHeadLatentAttention (with or without mask), a forward call on a valid
\* configuration with an input of shape (B, S, hidden_dim) raises nothing and
\* returns a tensor of shape exactly (B, S, hidden_dim).
C1_OutputShapeEqualsInputShape ==
  (Called /\ ValidConfig) =>
    /\ pc = "done"
    /\ fw.out.ok
    /\ fw.out.shape = x.shape

C1_Witness ==
  /\ pc = "done"
  /\ IsGQA /\ ValidConfig
  /\ layer.kv_heads > 1 /\ layer.q_heads > layer.kv_heads
  /\ x.shape = <<2, 2, 4>>
  /\ fw.out.shape = <<2, 2, 4>>

\* the MultiHeadAttention that holds the projections of a GroupQueryAttention
\* with kv_heads = query_heads
SameWeightsMHA(self) ==
  [kind |-> "MultiHeadAttention",
   num_heads |-> self.q_heads,
   hidden_dim |-> self.hidden_dim,
   head_dim |-> self.head_dim,
   query |-> self.query,
   keys |-> self.keys,
   values |-> self.values,
   output |-> self.output]

\* C2: GroupQueryAttention with kv_heads = query_heads returns, for every
\* input, the output of MultiHeadAttention with the same hidden_dim, head
\* count and projection weights (to within 1/1000).
C2_GQAFullHeadsEqualsMHA ==
  (pc = "done" /\ IsGQA /\ ValidConfig /\ layer.kv_heads = layer.q_heads) =>
    LET ref == MHA_forward(SameWeightsMHA(layer), x).out
    IN  Close(fw.out, ref, (fw.out.den * ref.den) \div 1000)

\* C3: a MultiHeadAttention whose hidden_dim is not divisible by num_heads is
\* rejected at construction, so no forward call on such a layer ever fails.
C3_MHAIndivisibleNeverFailsInForward ==
  ~(IsMHA /\ layer.hidden_dim % layer.num_heads # 0 /\ pc = "forward_error")

\* C4: a GroupQueryAttention whose query_heads is not divisible by kv_heads is
\* rejected at construction, so no forward call on such a layer ever fails.
C4_GQAIndivisibleNeverFailsInForward ==
  ~(IsGQA /\ layer.q_heads % layer.kv_heads # 0 /\ pc = "forward_error")

\* the projections of the input, before any reshaping: shape (B, S, width)
QProj == Linear(x, layer.query)

KProj == Linear(x, layer.keys)

VProj == Linear(x, layer.values)

Range(n) == 0..(n - 1)

\* C5: in GroupQueryAttention with kv_heads = 1, for every batch element the
\* key operand read by every query-head group is the one projected key head,
\* every query head is scored against it (the score is the sum over all query
\* heads h of q_h . k), and the result is applied to the one value head.
C5_MultiQuerySharesOneKVHead ==
  (pc = "done" /\ IsGQA /\ ValidConfig /\ layer.kv_heads = 1) =>
    LET B  == x.shape[1]
        S  == x.shape[2]
        Q  == layer.q_heads
        hd == layer.head_dim
        kb == SubSeq(fw.keys.shape, 1, 3)
    IN  /\ fw.values.shape = <<B, 1, S, hd>>
        /\ \A b \in Range(B), t \in Range(S), e \in Range(hd) :
              /\ At(fw.values, <<b, 0, t, e>>) = At(VProj, <<b, t, e>>)
              /\ \A g \in Range(Q) :
                    At(fw.keys, BIdx(<<b, g, 0>>, kb) \o <<t, e>>) = At(KProj, <<b, t, e>>)
        /\ \A b \in Range(B), s \in Range(S), t \in Range(S) :
              At(fw.atten, <<b, 0, s, t>>) =
                SumTo([h \in 1..Q |->
                         SumTo([e \in 1..hd |-> At(QProj, <<b, s, (h - 1) * hd + e - 1>>)
                                              * At(KProj, <<b, t, e - 1>>)], hd)], Q)
        /\ \A b \in Range(B), s \in Range(S), e \in Range(hd) :
              At(fw.ctx, <<b, s, e>>) =
                SumTo([t \in 1..S |-> At(fw.atten, <<b, 0, s, t - 1>>)
                                     * At(VProj, <<b, t - 1, e>>)], S)

C5_Witness ==
  /\ pc = "done"
  /\ IsGQA /\ ValidConfig
  /\ layer.kv_heads = 1 /\ layer.q_heads = 2 /\ layer.head_dim = 2
  /\ x.shape = <<2, 2, 4>>
  /\ \E s \in Range(2) : At(fw.atten, <<0, 0, s, 0>>) # At(fw.atten, <<1, 0, s, 0>>)

\* the smallest k with exp(-k / LogitDen) = 0
ExpUnderflow == CHOOSE k \in 1..100 : ExpNeg(k) = 0 /\ ExpNeg(k - 1) > 0

Masked(q, k) == At(mask, <<q, k>>) = 0

\* C6 as stated: with a mask, in every (batch, head, query) row, every key
\* position where the mask is zero gets attention weight zero.
C6_EveryMaskedKeyHasZeroWeight ==
  (pc = "done" /\ IsMLA /\ mask # None) =>
    \A b \in Range(x.shape[1]), h \in Range(layer.num_heads),
       q \in Range(x.shape[2]), k \in Range(x.shape[2]) :
      Masked(q, k) => At(fw.atten, <<b, h, q, k>>) = 0

\* some unmasked key of the row has a logit above the fill value by at least
\* the range over which exp underflows
RowHasLiveKey(b, h, q) ==
  \E k \in Range(x.shape[2]) :
    /\ ~Masked(q, k)
    /\ At(fw.logits, <<b, h, q, k>>) - MaskFill * fw.logits.den >= ExpUnderflow

\* C6 amended: with a mask, in every (batch, head, query) row that has an
\* unmasked key whose logit is above the fill value -1e9 by the underflow
\* range of exp, every key position where the mask is zero gets weight zero;
\* in a row whose keys are all masked the weights are equal (1/T each).
C6_MaskedKeyHasZeroWeightInLiveRow ==
  (pc = "done" /\ IsMLA /\ mask # None) =>
    \A b \in Range(x.shape[1]), h \in Range(layer.num_heads), q \in Range(x.shape[2]) :
      /\ RowHasLiveKey(b, h, q) =>
            \A k \in Range(x.shape[2]) :
              Masked(q, k) => At(fw.atten, <<b, h, q, k>>) = 0
      /\ (\A k \in Range(x.shape[2]) : Masked(q, k)) =>
            \A k \in Range(x.shape[2]) :
              At(fw.atten, <<b, h, q, k>>) = One \div x.shape[2]

C6_Witness ==
  /\ pc = "done"
  /\ IsMLA
  /\ mask = KeyExcludedMask(2, 0)
  /\ layer.num_heads = 2
  /\ x.shape = <<2, 2, 4>>
  /\ \A b \in Range(2), h \in Range(2), q \in Range(2) :
        /\ RowHasLiveKey(b, h, q)
        /\ At(fw.atten, <<b, h, q, 0>>) = 0
  /\ \E b \in Range(2), h \in Range(2), q \in Range(2) :
        At(fw.logits, <<b, h, q, 0>>) > At(fw.logits, <<b, h, q, 1>>)

\* C7: MultiHeadLatentAttention.forward with a mask of all ones returns
\* exactly the output of the call without mask.
C7_AllOnesMaskEqualsNoMask ==
  (Called /\ IsMLA /\ mask # None /\ mask = OnesMask(x.shape[2])) =>
    LET ref == MLA_forward(layer, x, None)
    IN  /\ fw.out = ref.out
        /\ fw.atten = ref.atten

C7_Witness ==
  /\ pc = "done"
  /\ IsMLA
  /\ layer.num_heads = 2
  /\ x.shape = <<2, 2, 4>>
  /\ mask = OnesMask(2)
  /\ \E p \in 1..16 : fw.out.data[p] # 0

\* C8: in MultiHeadAttention.forward and MultiHeadLatentAttention.forward, in
\* every (batch, head, query) row the attention weights over the key
\* positions are non-negative and sum to 1, to within the rounding of one
\* unit 1/One per key.
C8_AttentionRowsAreDistributions ==
  (pc = "done" /\ (IsMHA \/ IsMLA)) =>
    LET T == x.shape[2]
        H == layer.num_heads
    IN  /\ fw.atten.shape = <<x.shape[1], H, T, T>>
        /\ fw.atten.den = One
        /\ \A b \in Range(x.shape[1]), h \in Range(H), q \in Range(T) :
              /\ \A k \in Range(T) : At(fw.atten, <<b, h, q, k>>) >= 0
              /\ Abs(SumTo([k \in 1..T |-> At(fw.atten, <<b, h, q, k - 1>>)], T) - One) <= T

C8_Witness ==
  /\ pc = "done"
  /\ IsMHA
  /\ layer.num_heads = 2
  /\ x.shape = <<2, 2, 4>>
  /\ \E b \in Range(2), h \in Range(2), q \in Range(2) :
        /\ At(fw.atten, <<b, h, q, 0>>) > 0
        /\ At(fw.atten, <<b, h, q, 1>>) > 0
        /\ At(fw.atten, <<b, h, q, 0>>) # At(fw.atten, <<b, h, q, 1>>)

\* C9: in GroupQueryAttention.forward the regrouped query at (group g,
\* kv index j) is query head h = g * kv_heads + j, and query head h is
\* scored against key head h mod kv_heads: the score of kv head j is the sum
\* of q_h . k_j over the heads h with h mod kv_heads = j.
C9_QueryHeadUsesKVHeadModKV ==
  (pc = "done" /\ IsGQA /\ ValidConfig) =>
    LET B  == x.shape[1]
        S  == x.shape[2]
        Q  == layer.q_heads
        KV == layer.kv_heads
        hd == layer.head_dim
    IN  /\ fw.query.shape = <<B, Q \div KV, KV, S, hd>>
        /\ \A b \in Range(B), h \in Range(Q), s \in Range(S), e \in Range(hd) :
              At(fw.query, <<b, h \div KV, h % KV, s, e>>) = At(QProj, <<b, s, h * hd + e>>)
        /\ \A b \in Range(B), j \in Range(KV), s \in Range(S), t \in Range(S) :
              At(fw.atten, <<b, j, s, t>>) =
                SumTo([h \in 1..Q |->
                         IF (h - 1) % KV = j
                         THEN SumTo([e \in 1..hd |->
                                       At(QProj, <<b, s, (h - 1) * hd + e - 1>>)
                                       * At(KProj, <<b, t, j * hd + e - 1>>)], hd)
                         ELSE 0], Q)

C9_Witness ==
  /\ pc = "done"
  /\ IsGQA /\ ValidConfig
  /\ layer.q_heads = 4 /\ layer.kv_heads = 2
  /\ x.shape = <<1, 2, 4>>
  /\ At(fw.query, <<0, 0, 1, 0, 0>>) # At(fw.query, <<0, 1, 0, 0, 0>>)

\* C10: in GroupQueryAttention.forward the score of kv head j is the sum over
\* the groups of the raw dot products divided by head_dim ** 0.5, as in
\* MultiHeadAttention (to within one logit unit per group).
C10_GQAScoresAreScaled ==
  (pc = "done" /\ IsGQA /\ ValidConfig) =>
    LET scaled == SumDim(DivSqrt(Matmul(fw.query, Transpose(fw.keys, 3, 4)),
                                 layer.head_dim), 1)
    IN  Close(fw.atten, scaled, (layer.q_heads \div layer.kv_heads) * fw.atten.den)

\* C11: in GroupQueryAttention.forward the score applied to the values at
\* (batch b, kv head j, query s, key t) is the plain sum, over the G = Q / KV
\* query heads g * KV + j of kv head j, of the raw dot products q . k: an
\* integer combination of the projections, never scaled or normalised; the
\* result before the output projection has width kv_heads * head_dim, feature
\* j * head_dim + e being SUM_t score[b, j, s, t] * v[b, t, j * head_dim + e].
C11_GQAScoreIsPlainGroupSum ==
  (pc = "done" /\ IsGQA /\ ValidConfig) =>
    LET B  == x.shape[1]
        S  == x.shape[2]
        KV == layer.kv_heads
        G  == layer.q_heads \div KV
        hd == layer.head_dim
    IN  /\ fw.atten.shape = <<B, KV, S, S>>
        /\ fw.atten.den = 1
        /\ \A b \in Range(B), j \in Range(KV), s \in Range(S), t \in Range(S) :
              At(fw.atten, <<b, j, s, t>>) =
                SumTo([g \in 1..G |->
                         SumTo([e \in 1..hd |->
                                  At(QProj, <<b, s, ((g - 1) * KV + j) * hd + e - 1>>)
                                  * At(KProj, <<b, t, j * hd + e - 1>>)], hd)], G)
        /\ fw.ctx.shape = <<B, S, KV * hd>>
        /\ fw.ctx.den = 1
        /\ \A b \in Range(B), j \in Range(KV), s \in Range(S), e \in Range(hd) :
              At(fw.ctx, <<b, s, j * hd + e>>) =
                SumTo([t \in 1..S |-> At(fw.atten, <<b, j, s, t - 1>>)
                                     * At(VProj, <<b, t - 1, j * hd + e>>)], S)

C11_Witness ==
  /\ pc = "done"
  /\ IsGQA /\ ValidConfig
  /\ layer.q_heads = 4 /\ layer.kv_heads = 2 /\ layer.hidden_dim = 4
  /\ x.shape = <<2, 2, 4>>
  /\ fw.ctx.shape = <<2, 2, 2>>
  /\ \E b \in Range(2), j \in Range(2), s \in Range(2) :
        /\ At(fw.atten, <<b, j, s, 0>>) < 0
        /\ At(fw.atten, <<b, j, s, 0>>) + At(fw.atten, <<b, j, s, 1>>) > 1

\* the query, key and value projections of MultiHeadAttention and
\* MultiHeadLatentAttention before the head split: shape (B, S, D)
SplitQ == IF IsMLA THEN Linear(x, layer.query_proj) ELSE Linear(x, layer.query)

SplitK ==
  IF IsMLA THEN Linear(Linear(x, layer.kv_down_proj), layer.k_up_proj)
  ELSE Linear(x, layer.keys)

SplitV ==
  IF IsMLA THEN Linear(Linear(x, layer.kv_down_proj), layer.v_up_proj)
  ELSE Linear(x, layer.values)

\* C12: in MultiHeadAttention.forward and MultiHeadLatentAttention.forward the
\* head split followed by the head merge is the identity on indices: head h
\* at position s of batch b holds features h * head_dim .. (h + 1) * head_dim - 1
\* of the query, key and value projections of that batch and position, and
\* its attention result is written to the same features of the same batch and
\* position of the merged tensor.
C12_HeadSplitMergeKeepsIndices ==
  (pc = "done" /\ (IsMHA \/ IsMLA)) =>
    LET B  == x.shape[1]
        S  == x.shape[2]
        D  == x.shape[3]
        H  == layer.num_heads
        hd == D \div H
    IN  /\ fw.query.shape = <<B, H, S, hd>>
        /\ fw.keys.shape = <<B, H, S, hd>>
        /\ fw.values.shape = <<B, H, S, hd>>
        /\ fw.ctx.shape = <<B, S, D>>
        /\ \A b \in Range(B), h \in Range(H), s \in Range(S), e \in Range(hd) :
              /\ At(fw.query, <<b, h, s, e>>) = At(SplitQ, <<b, s, h * hd + e>>)
              /\ At(fw.keys, <<b, h, s, e>>) = At(SplitK, <<b, s, h * hd + e>>)
              /\ At(fw.values, <<b, h, s, e>>) = At(SplitV, <<b, s, h * hd + e>>)
              /\ At(fw.ctx, <<b, s, h * hd + e>>) =
                    SumTo([t \in 1..S |-> At(fw.atten, <<b, h, s, t - 1>>)
                                         * At(SplitV, <<b, t - 1, h * hd + e>>)], S)

C12_Witness ==
  /\ pc = "done"
  /\ IsMHA
  /\ layer.num_heads = 2 /\ layer.head_dim = 2
  /\ x.shape = <<2, 2, 4>>
  /\ At(fw.ctx, <<0, 0, 0>>) # At(fw.ctx, <<0, 1, 0>>)
  /\ At(fw.ctx, <<0, 0, 0>>) # At(fw.ctx, <<0, 0, 2>>)
  /\ At(fw.ctx, <<0, 0, 0>>) # At(fw.ctx, <<1, 0, 0>>)
  /\ At(fw.query, <<0, 1, 0, 0>>) # At(fw.query, <<0, 0, 1, 0>>)

====
